---- MODULE Spec2Model ----
(***************************************************************************)
(* A model of config.go: the configuration store of AdGuard Home, its      *)
(* two-phase load from the YAML file (getLogSettings, parseConfig) and its *)
(* persistence (configuration.write, writeAllConfigs).                     *)
(*                                                                         *)
(* YAML text is modelled as the node tree gopkg.in/yaml.v2 builds from it: *)
(* a scalar is its text plus a "quoted" style flag and is typed only when  *)
(* it is resolved against the Go field it is decoded into; a mapping is an *)
(* ORDERED sequence of key/node pairs, so key order and key names are      *)
(* observable.                                                             *)
(***************************************************************************)
EXTENDS Integers, Sequences, FiniteSets, TLC

(***************************************************************************)
(* Bounds of the model.                                                    *)
(***************************************************************************)
\* how many times the process may be started again after the first start
MaxRestarts == 1
\* how many administrative mutations one run of the process may apply
MaxMutations == 1
\* how many times the environment may replace or remove the file
MaxEnvEdits == 1

(***************************************************************************)
(* YAML nodes.                                                             *)
(***************************************************************************)
Scalar(t, q) == [kind |-> "scalar", text |-> t, quoted |-> q]
SeqNode(items) == [kind |-> "seq", items |-> items]
MapNode(pairs) == [kind |-> "map", pairs |-> pairs]
Pair(k, v) == [k |-> k, v |-> v]
\* the node of an empty document (yaml.v2's parser returns no node)
EmptyDoc == [kind |-> "empty"]

Digit == <<"0", "1", "2", "3", "4", "5", "6", "7", "8", "9">>

RECURSIVE Itoa(_)
\* strconv.Itoa as yaml.v2's encoder uses it for an int field (n >= 0 here)
Itoa(n) == IF n < 10 THEN Digit[n + 1] ELSE Itoa(n \div 10) \o Digit[(n % 10) + 1]

\* the integers whose decimal text the model can read back
KnownInts == 0..12 \cup {20, 53, 67, 443, 853, 3000, 5353, 8080, 8443}

AtoiTable == [n \in KnownInts |-> Itoa(n)]

IsIntText(t) == \E n \in KnownInts : AtoiTable[n] = t

Atoi(t) == CHOOSE n \in KnownInts : AtoiTable[n] = t

BoolTrueTexts == {"true", "yes", "on", "y"}
BoolFalseTexts == {"false", "no", "off", "n"}
NullTexts == {"", "~", "null"}

\* yaml.v2 resolve(): the implicit type of a plain (unquoted) scalar
resolvePlain(t) ==
    IF t \in NullTexts THEN "null"
    ELSE IF t \in BoolTrueTexts \cup BoolFalseTexts THEN "bool"
    ELSE IF IsIntText(t) THEN "int"
    ELSE "str"

\* the resolved type of a scalar node: a quoted scalar is always a string
resolve(n) == IF n.quoted THEN "str" ELSE resolvePlain(n.text)

(***************************************************************************)
(* yaml.v2 encoder, per Go kind.                                           *)
(***************************************************************************)
\* a string is written plain unless it would then resolve to another type
encString(s) == Scalar(s, resolvePlain(s) # "str")
encInt(n) == Scalar(Itoa(n), FALSE)
encBool(b) == Scalar(IF b THEN "true" ELSE "false", FALSE)
encStrings(ss) == SeqNode([i \in 1..Len(ss) |-> encString(ss[i])])

(***************************************************************************)
(* yaml.v2 decoder, per Go kind.  Each returns the new value of the field  *)
(* and the number of type errors recorded (d.terrors): on a type error the *)
(* field keeps its value and DECODING CONTINUES with the next field.  A    *)
(* field whose key the mapping lacks (a "missing" node) is not touched.    *)
(***************************************************************************)
Dec(v, e) == [v |-> v, errs |-> e]

IsNull(n) == n.kind = "scalar" /\ resolve(n) = "null"

\* a string field takes the text of any scalar that is not null
stringOf(tag, n, old) == IF tag = "null" THEN Dec("", 0) ELSE Dec(n.text, 0)

decString(n, old) ==
    IF n.kind = "missing" THEN Dec(old, 0)
    ELSE IF n.kind # "scalar" THEN Dec(old, 1)
    ELSE stringOf(resolve(n), n, old)

\* an int field takes a scalar that resolves to an integer
intOf(tag, n, old) ==
    IF tag = "null" THEN Dec(0, 0)
    ELSE IF tag = "int" THEN Dec(Atoi(n.text), 0)
    ELSE Dec(old, 1)

decInt(n, old) ==
    IF n.kind = "missing" THEN Dec(old, 0)
    ELSE IF n.kind # "scalar" THEN Dec(old, 1)
    ELSE intOf(resolve(n), n, old)

\* a bool field takes a scalar that resolves to a boolean
boolOf(tag, n, old) ==
    IF tag = "null" THEN Dec(FALSE, 0)
    ELSE IF tag = "bool" THEN Dec(n.text \in BoolTrueTexts, 0)
    ELSE Dec(old, 1)

decBool(n, old) ==
    IF n.kind = "missing" THEN Dec(old, 0)
    ELSE IF n.kind # "scalar" THEN Dec(old, 1)
    ELSE boolOf(resolve(n), n, old)

RECURSIVE SumErrs(_)
SumErrs(ds) == IF ds = <<>> THEN 0 ELSE Head(ds).errs + SumErrs(Tail(ds))

RECURSIVE KeepGood(_)
\* d.sequence: an element that failed to decode is dropped from the slice
KeepGood(ds) ==
    IF ds = <<>> THEN <<>>
    ELSE IF Head(ds).errs = 0 THEN <<Head(ds).v>> \o KeepGood(Tail(ds))
    ELSE KeepGood(Tail(ds))

sliceOf(ds) == Dec(KeepGood(ds), SumErrs(ds))

\* []string: a sequence node replaces the slice, whatever it held
decStrings(n, old) ==
    IF n.kind = "missing" THEN Dec(old, 0)
    ELSE IF IsNull(n) THEN Dec(<<>>, 0)
    ELSE IF n.kind # "seq" THEN Dec(old, 1)
    ELSE sliceOf([i \in 1..Len(n.items) |-> decString(n.items[i], "")])

HasKey(n, k) == \E i \in 1..Len(n.pairs) : n.pairs[i].k = k

\* a key given twice: the later value is decoded last and wins
Get(n, k) ==
    LET i == CHOOSE j \in 1..Len(n.pairs) :
                 /\ n.pairs[j].k = k
                 /\ \A h \in (j + 1)..Len(n.pairs) : n.pairs[h].k # k
    IN  n.pairs[i].v

\* the keys of a mapping node, in document order
Keys(n) == [i \in 1..Len(n.pairs) |-> n.pairs[i].k]

\* what a struct field is decoded from when the mapping lacks its key
Missing == [kind |-> "missing"]

\* the node of one field of a struct: the value of its key, if the mapping has it
At(n, k) == IF HasKey(n, k) THEN Get(n, k) ELSE Missing

(***************************************************************************)
(* The configuration struct and its defaults.                              *)
(***************************************************************************)
\* upgrade.go's constant; config.go only names it
(***************************************************************************)
(* Paths (path/filepath on Unix).  A path is the sequence of its parts: the *)
(* separator "/" and the names between separators, "." and ".." included.   *)
(***************************************************************************)
\* filepath.IsAbs: the path begins with the separator
IsAbs(path) == path # <<>> /\ Head(path) = "/"

\* the components of a path, "" where two separators meet or the path ends
RECURSIVE Split(_, _)
Split(path, cur) ==
    IF path = <<>> THEN <<cur>>
    ELSE IF Head(path) = "/" THEN <<cur>> \o Split(Tail(path), "")
    ELSE Split(Tail(path), Head(path))

\* the loop of filepath.Clean over the components, out being the output so far
RECURSIVE cleanFrom(_, _, _)
cleanFrom(comps, out, rooted) ==
    IF comps = <<>> THEN out
    ELSE IF Head(comps) \in {"", "."} THEN cleanFrom(Tail(comps), out, rooted)
    ELSE IF Head(comps) = ".."
    THEN IF out # <<>> /\ out[Len(out)] # ".."
         THEN cleanFrom(Tail(comps), SubSeq(out, 1, Len(out) - 1), rooted)
         ELSE IF ~rooted THEN cleanFrom(Tail(comps), Append(out, ".."), rooted)
         ELSE cleanFrom(Tail(comps), out, rooted)
    ELSE cleanFrom(Tail(comps), Append(out, Head(comps)), rooted)

\* strings.Join(comps, "/")
RECURSIVE joinSep(_)
joinSep(comps) ==
    IF comps = <<>> THEN <<>>
    ELSE IF Len(comps) = 1 THEN <<Head(comps)>>
    ELSE <<Head(comps), "/">> \o joinSep(Tail(comps))

cleaned(out, rooted) ==
    IF out = <<>> THEN (IF rooted THEN <<"/">> ELSE <<".">>)
    ELSE (IF rooted THEN <<"/">> ELSE <<>>) \o joinSep(out)

\* filepath.Clean
Clean(path) ==
    IF path = <<>> THEN <<".">>
    ELSE cleaned(cleanFrom(Split(path, ""), <<>>, IsAbs(path)), IsAbs(path))

\* filepath.Join(a, b): empty leading elements are dropped, the rest is
\* joined with the separator and cleaned
Join(a, b) ==
    IF a # <<>> THEN Clean(a \o <<"/">> \o b)
    ELSE IF b # <<>> THEN Clean(b)
    ELSE <<>>

\* a variant of getConfigFilename without the filepath.IsAbs test
getConfigFilename_alwaysJoin(c) == Join(c.ourWorkingDir, c.ourConfigFilename)

\* configuration.getConfigFilename
getConfigFilename(c) ==
    IF ~IsAbs(c.ourConfigFilename)
    THEN Join(c.ourWorkingDir, c.ourConfigFilename)
    ELSE c.ourConfigFilename

currentSchemaVersion == 2

defaultDNS == <<"tls://1.1.1.1", "tls://1.0.0.1">>

\* type logSettings
zeroLogSettings == [LogFile |-> "", Verbose |-> FALSE]

\* type tlsConfigStatus: recalculated on each run, every field tagged yaml:"-"
zeroTLSStatus ==
    [ValidChain |-> FALSE, Subject |-> "", Issuer |-> "", NotBefore |-> 0,
     NotAfter |-> 0, DNSNames |-> <<>>, StatusCertificate |-> "",
     ValidKey |-> FALSE, KeyType |-> "", Warning |-> "", WarningValidation |-> ""]

\* type tlsConfigSettings, with the inlined dnsforward.TLSConfig
zeroTLSSettings ==
    [Enabled |-> FALSE, ServerName |-> "", ForceHTTPS |-> FALSE, PortHTTPS |-> 0,
     PortDNSOverTLS |-> 0, CertificateChain |-> "", PrivateKey |-> ""]

\* type tlsConfig
zeroTLS == [Settings |-> zeroTLSSettings, Status |-> zeroTLSStatus]

\* type dnsConfig, with the inlined dnsforward.FilteringConfig
zeroDNS ==
    [BindHost |-> "", Port |-> 0, ProtectionEnabled |-> FALSE,
     FilteringEnabled |-> FALSE, BlockedResponseTTL |-> 0, QueryLogEnabled |-> FALSE,
     Ratelimit |-> 0, RefuseAny |-> FALSE, BootstrapDNS |-> "", UpstreamDNS |-> <<>>]

\* type filter
zeroFilter == [ID |-> 0, Enabled |-> FALSE, URL |-> "", Name |-> ""]

\* dhcpd.ServerConfig, opaque to config.go: one flag stands for its content
zeroDHCP == [Enabled |-> FALSE]

\* the zero value of type configuration (what a null document decodes to)
zeroConfiguration ==
    [ourConfigFilename |-> <<>>, ourWorkingDir |-> <<>>, firstRun |-> FALSE,
     BindHost |-> "", BindPort |-> 0, AuthName |-> "", AuthPass |-> "",
     Language |-> "", DNS |-> zeroDNS, TLS |-> zeroTLS, Filters |-> <<>>,
     UserRules |-> <<>>, DHCP |-> zeroDHCP, LogFile |-> "", Verbose |-> FALSE,
     SchemaVersion |-> 0]

Filter(id, en, url, name) == [ID |-> id, Enabled |-> en, URL |-> url, Name |-> name]

defaultFilters ==
    << Filter(1, TRUE, "https://adguardteam.github.io/AdGuardSDNSFilter/Filters/filter.txt",
              "AdGuard Simplified Domain Names filter"),
       Filter(2, FALSE, "https://adaway.org/hosts.txt", "AdAway"),
       Filter(3, FALSE, "https://hosts-file.net/ad_servers.txt",
              "hpHosts - Ad and Tracking servers only"),
       Filter(4, FALSE, "http://www.malwaredomainlist.com/hostslist/hosts.txt",
              "MalwareDomainList.com Hosts List") >>

\* var config = configuration{...}: the store before any file is read
defaultConfig ==
    [ourConfigFilename |-> <<"AdGuardHome.yaml">>, ourWorkingDir |-> <<>>, firstRun |-> FALSE,
     BindHost |-> "0.0.0.0", BindPort |-> 3000, AuthName |-> "", AuthPass |-> "",
     Language |-> "",
     DNS |-> [BindHost |-> "0.0.0.0", Port |-> 53, ProtectionEnabled |-> TRUE,
              FilteringEnabled |-> TRUE, BlockedResponseTTL |-> 10,
              QueryLogEnabled |-> TRUE, Ratelimit |-> 20, RefuseAny |-> TRUE,
              BootstrapDNS |-> "8.8.8.8:53", UpstreamDNS |-> defaultDNS],
     TLS |-> [Settings |-> [zeroTLSSettings EXCEPT !.PortHTTPS = 443,
                                                   !.PortDNSOverTLS = 853],
              Status |-> zeroTLSStatus],
     Filters |-> defaultFilters, UserRules |-> <<>>, DHCP |-> zeroDHCP,
     LogFile |-> "", Verbose |-> FALSE, SchemaVersion |-> currentSchemaVersion]

(***************************************************************************)
(* yaml.Marshal(&config): the fields in declaration order under their yaml *)
(* tags, inlined structs spliced in place, yaml:"-" and unexported fields  *)
(* left out.                                                               *)
(***************************************************************************)
\* dnsforward.FilteringConfig, inlined into dnsConfig
encFilteringConfig(d) ==
    << Pair("protection_enabled", encBool(d.ProtectionEnabled)),
       Pair("filtering_enabled", encBool(d.FilteringEnabled)),
       Pair("blocked_response_ttl", encInt(d.BlockedResponseTTL)),
       Pair("querylog_enabled", encBool(d.QueryLogEnabled)),
       Pair("ratelimit", encInt(d.Ratelimit)),
       Pair("refuse_any", encBool(d.RefuseAny)),
       Pair("bootstrap_dns", encString(d.BootstrapDNS)) >>

encDNS(d) ==
    MapNode(<< Pair("bind_host", encString(d.BindHost)),
               Pair("port", encInt(d.Port)) >>
            \o encFilteringConfig(d)
            \o << Pair("upstream_dns", encStrings(d.UpstreamDNS)) >>)

\* dnsforward.TLSConfig, inlined into tlsConfigSettings
encTLSConfig(t) ==
    << Pair("certificate_chain", encString(t.CertificateChain)),
       Pair("private_key", encString(t.PrivateKey)) >>

\* a variant of encTLSSettings that writes the flag under the key "enabled",
\* which the decoder does not read
encTLSSettings_enabledKey(t) ==
    << Pair("enabled", encBool(t.Enabled)),
       Pair("server_name", encString(t.ServerName)),
       Pair("force_https", encBool(t.ForceHTTPS)),
       Pair("port_https", encInt(t.PortHTTPS)),
       Pair("port_dns_over_tls", encInt(t.PortDNSOverTLS)) >>
    \o encTLSConfig(t)

\* tlsConfigSettings: the Enabled field carries the tag yaml:"enaled"
encTLSSettings(t) ==
    << Pair("enaled", encBool(t.Enabled)),
       Pair("server_name", encString(t.ServerName)),
       Pair("force_https", encBool(t.ForceHTTPS)),
       Pair("port_https", encInt(t.PortHTTPS)),
       Pair("port_dns_over_tls", encInt(t.PortDNSOverTLS)) >>
    \o encTLSConfig(t)

\* a variant of encTLS for a tlsConfigStatus without its yaml:"-" tags: the
\* status is written under the lower-cased field names
encTLS_withStatus(t) ==
    MapNode(encTLSSettings(t.Settings)
            \o << Pair("validchain", encBool(t.Status.ValidChain)),
                  Pair("subject", encString(t.Status.Subject)),
                  Pair("issuer", encString(t.Status.Issuer)),
                  Pair("validkey", encBool(t.Status.ValidKey)),
                  Pair("keytype", encString(t.Status.KeyType)),
                  Pair("warning", encString(t.Status.Warning)) >>)

\* tlsConfig: the settings inlined, the status tagged yaml:"-"
encTLS(t) == MapNode(encTLSSettings(t.Settings))

encFilter(f) ==
    MapNode(<< Pair("id", encInt(f.ID)), Pair("enabled", encBool(f.Enabled)),
               Pair("url", encString(f.URL)), Pair("name", encString(f.Name)) >>)

encFilters(fs) == SeqNode([i \in 1..Len(fs) |-> encFilter(fs[i])])

encDHCP(d) == MapNode(<< Pair("enabled", encBool(d.Enabled)) >>)

encLogSettings(c) ==
    << Pair("log_file", encString(c.LogFile)), Pair("verbose", encBool(c.Verbose)) >>

Marshal(c) ==
    MapNode(<< Pair("bind_host", encString(c.BindHost)),
               Pair("bind_port", encInt(c.BindPort)),
               Pair("auth_name", encString(c.AuthName)),
               Pair("auth_pass", encString(c.AuthPass)),
               Pair("language", encString(c.Language)),
               Pair("dns", encDNS(c.DNS)),
               Pair("tls", encTLS(c.TLS)),
               Pair("filters", encFilters(c.Filters)),
               Pair("user_rules", encStrings(c.UserRules)),
               Pair("dhcp", encDHCP(c.DHCP)) >>
            \o encLogSettings(c)
            \o << Pair("schema_version", encInt(c.SchemaVersion)) >>)

(***************************************************************************)
(* yaml.Unmarshal into the structs.  A mapping node is decoded INTO the    *)
(* value the struct already holds: a key that is missing leaves its field  *)
(* alone, an unknown key is skipped.  A null node sets the whole target to *)
(* its zero value; any other node kind is a type error.                    *)
(***************************************************************************)
dnsOf(bh, po, pe, fe, bt, ql, rl, ra, bd, up) ==
    Dec([BindHost |-> bh.v, Port |-> po.v, ProtectionEnabled |-> pe.v,
         FilteringEnabled |-> fe.v, BlockedResponseTTL |-> bt.v,
         QueryLogEnabled |-> ql.v, Ratelimit |-> rl.v, RefuseAny |-> ra.v,
         BootstrapDNS |-> bd.v, UpstreamDNS |-> up.v],
        bh.errs + po.errs + pe.errs + fe.errs + bt.errs + ql.errs
        + rl.errs + ra.errs + bd.errs + up.errs)

decDNS(n, old) ==
    IF n.kind = "missing" THEN Dec(old, 0)
    ELSE IF IsNull(n) THEN Dec(zeroDNS, 0)
    ELSE IF n.kind # "map" THEN Dec(old, 1)
    ELSE dnsOf(decString(At(n, "bind_host"), old.BindHost),
               decInt(At(n, "port"), old.Port),
               decBool(At(n, "protection_enabled"), old.ProtectionEnabled),
               decBool(At(n, "filtering_enabled"), old.FilteringEnabled),
               decInt(At(n, "blocked_response_ttl"), old.BlockedResponseTTL),
               decBool(At(n, "querylog_enabled"), old.QueryLogEnabled),
               decInt(At(n, "ratelimit"), old.Ratelimit),
               decBool(At(n, "refuse_any"), old.RefuseAny),
               decString(At(n, "bootstrap_dns"), old.BootstrapDNS),
               decStrings(At(n, "upstream_dns"), old.UpstreamDNS))

tlsSettingsOf(en, sn, fh, ph, pd, cc, pk) ==
    Dec([Enabled |-> en.v, ServerName |-> sn.v, ForceHTTPS |-> fh.v,
         PortHTTPS |-> ph.v, PortDNSOverTLS |-> pd.v,
         CertificateChain |-> cc.v, PrivateKey |-> pk.v],
        en.errs + sn.errs + fh.errs + ph.errs + pd.errs + cc.errs + pk.errs)

\* tlsConfigSettings: the Enabled field is read from the key "enaled"
decTLSSettings(n, old) ==
    tlsSettingsOf(decBool(At(n, "enaled"), old.Enabled),
                  decString(At(n, "server_name"), old.ServerName),
                  decBool(At(n, "force_https"), old.ForceHTTPS),
                  decInt(At(n, "port_https"), old.PortHTTPS),
                  decInt(At(n, "port_dns_over_tls"), old.PortDNSOverTLS),
                  decString(At(n, "certificate_chain"), old.CertificateChain),
                  decString(At(n, "private_key"), old.PrivateKey))

tlsOf(st, old) == Dec([Settings |-> st.v, Status |-> old.Status], st.errs)

\* tlsConfig: no key reaches the status fields (yaml:"-")
decTLS(n, old) ==
    IF n.kind = "missing" THEN Dec(old, 0)
    ELSE IF IsNull(n) THEN Dec(zeroTLS, 0)
    ELSE IF n.kind # "map" THEN Dec(old, 1)
    ELSE tlsOf(decTLSSettings(n, old.Settings), old)

filterOf(id, en, ur, na) ==
    Dec([ID |-> id.v, Enabled |-> en.v, URL |-> ur.v, Name |-> na.v],
        id.errs + en.errs + ur.errs + na.errs)

decFilter(n, old) ==
    IF n.kind = "missing" THEN Dec(old, 0)
    ELSE IF IsNull(n) THEN Dec(zeroFilter, 0)
    ELSE IF n.kind # "map" THEN Dec(old, 1)
    ELSE filterOf(decInt(At(n, "id"), old.ID),
                  decBool(At(n, "enabled"), old.Enabled),
                  decString(At(n, "url"), old.URL),
                  decString(At(n, "name"), old.Name))

\* d.sequence keeps an element whose node is a mapping or null, even when a
\* field of it failed, and drops an element of any other kind
filtersOf(n, ds) ==
    Dec(KeepGood([i \in 1..Len(ds) |->
                    Dec(ds[i].v, IF n.items[i].kind = "map" \/ IsNull(n.items[i])
                                 THEN 0 ELSE 1)]),
        SumErrs(ds))

\* []filter: a new slice, each element decoded into a zero filter
decFilters(n, old) ==
    IF n.kind = "missing" THEN Dec(old, 0)
    ELSE IF IsNull(n) THEN Dec(<<>>, 0)
    ELSE IF n.kind # "seq" THEN Dec(old, 1)
    ELSE filtersOf(n, [i \in 1..Len(n.items) |-> decFilter(n.items[i], zeroFilter)])

dhcpOf(en) == Dec([Enabled |-> en.v], en.errs)

decDHCP(n, old) ==
    IF n.kind = "missing" THEN Dec(old, 0)
    ELSE IF IsNull(n) THEN Dec(zeroDHCP, 0)
    ELSE IF n.kind # "map" THEN Dec(old, 1)
    ELSE dhcpOf(decBool(At(n, "enabled"), old.Enabled))

logSettingsOf(lf, vb) == Dec([LogFile |-> lf.v, Verbose |-> vb.v], lf.errs + vb.errs)

\* yaml.Unmarshal(yamlFile, &l) of getLogSettings: only the two logging keys
decLogSettings(n, old) ==
    IF n.kind = "empty" THEN Dec(old, 0)
    ELSE IF IsNull(n) THEN Dec(zeroLogSettings, 0)
    ELSE IF n.kind # "map" THEN Dec(old, 1)
    ELSE logSettingsOf(decString(At(n, "log_file"), old.LogFile),
                       decBool(At(n, "verbose"), old.Verbose))

configurationOf(old, bh, bp, an, ap, la, dn, tl, fi, ur, dh, lf, vb, sv) ==
    Dec([old EXCEPT !.BindHost = bh.v, !.BindPort = bp.v, !.AuthName = an.v,
                    !.AuthPass = ap.v, !.Language = la.v, !.DNS = dn.v,
                    !.TLS = tl.v, !.Filters = fi.v, !.UserRules = ur.v,
                    !.DHCP = dh.v, !.LogFile = lf.v, !.Verbose = vb.v,
                    !.SchemaVersion = sv.v],
        bh.errs + bp.errs + an.errs + ap.errs + la.errs + dn.errs + tl.errs
        + fi.errs + ur.errs + dh.errs + lf.errs + vb.errs + sv.errs)

\* yaml.Unmarshal(yamlFile, &config) of parseConfig, on a document that parsed
decConfiguration(n, old) ==
    IF n.kind = "empty" THEN Dec(old, 0)
    ELSE IF IsNull(n) THEN Dec(zeroConfiguration, 0)
    ELSE IF n.kind # "map" THEN Dec(old, 1)
    ELSE configurationOf(old,
             decString(At(n, "bind_host"), old.BindHost),
             decInt(At(n, "bind_port"), old.BindPort),
             decString(At(n, "auth_name"), old.AuthName),
             decString(At(n, "auth_pass"), old.AuthPass),
             decString(At(n, "language"), old.Language),
             decDNS(At(n, "dns"), old.DNS),
             decTLS(At(n, "tls"), old.TLS),
             decFilters(At(n, "filters"), old.Filters),
             decStrings(At(n, "user_rules"), old.UserRules),
             decDHCP(At(n, "dhcp"), old.DHCP),
             decString(At(n, "log_file"), old.LogFile),
             decBool(At(n, "verbose"), old.Verbose),
             decInt(At(n, "schema_version"), old.SchemaVersion))

(***************************************************************************)
(* File contents.  Bytes are either not YAML at all (the parser fails      *)
(* before anything is decoded) or the node tree of the document.           *)
(***************************************************************************)
Bytes(syntaxOK, doc) == [syntaxOK |-> syntaxOK, doc |-> doc]

\* what Unmarshal returns: a *yaml.TypeError if any value did not fit
unmarshalResult(d) == [v |-> d.v, err |-> IF d.errs > 0 THEN "yaml: unmarshal errors" ELSE ""]

\* yaml.Unmarshal(in, &config): [v: the store afterwards, err: "" or the error]
Unmarshal(in, old) ==
    IF ~in.syntaxOK THEN [v |-> old, err |-> "yaml: syntax error"]
    ELSE unmarshalResult(decConfiguration(in.doc, old))

\* yaml.Unmarshal(in, &l) for a logSettings value
UnmarshalLog(in, old) ==
    IF ~in.syntaxOK THEN [v |-> old, err |-> "yaml: syntax error"]
    ELSE unmarshalResult(decLogSettings(in.doc, old))

(***************************************************************************)
(* The filter normaliser (filter.go; config.go only calls it).             *)
(***************************************************************************)
RECURSIVE dedupFrom(_, _)
dedupFrom(fs, urls) ==
    IF fs = <<>> THEN <<>>
    ELSE IF Head(fs).URL \in urls THEN dedupFrom(Tail(fs), urls)
    ELSE <<Head(fs)>> \o dedupFrom(Tail(fs), urls \cup {Head(fs).URL})

\* deduplicateFilters(): keep the first filter of each URL, in order
deduplicateFilters(fs) == dedupFrom(fs, {})

IDsOf(fs) == {fs[i].ID : i \in 1..Len(fs)}

NextFreeID(used) == CHOOSE n \in 1..(Cardinality(used) + 1) : n \notin used

RECURSIVE renumberFrom(_, _, _)
renumberFrom(fs, seen, all) ==
    IF fs = <<>> THEN <<>>
    ELSE LET f == Head(fs)
             id == IF f.ID > 0 /\ f.ID \notin seen THEN f.ID
                   ELSE NextFreeID(seen \cup all)
         IN  <<[f EXCEPT !.ID = id]>> \o renumberFrom(Tail(fs), seen \cup {id}, all)

\* updateUniqueFilterID(config.Filters): a filter without an identifier, or
\* with one an earlier filter has, is given the next free identifier
updateUniqueFilterID(fs) == renumberFrom(fs, {}, {n \in IDsOf(fs) : n > 0})

(***************************************************************************)
(* State.                                                                  *)
(***************************************************************************)
VARIABLES
    config,     \* var config: the store
    lock,       \* config.RWMutex: [writer: a process or "none", readers: set]
    file,       \* the configuration file: [exists, readable, bytes]
    rulesFile,  \* the user filter's file: [exists, rules]
    pc,         \* each process's position
    configFile, \* the local configFile: what getConfigFilename last returned
    yamlFile,   \* main's local: what readConfigFile returned, [nil, bytes]
    err,        \* each process's local err ("" is nil)
    logCfg,     \* what getLogSettings returned to its caller
    call,       \* per process, the record of its current writeAllConfigs call
    snapshot,   \* what the reader last read under the read lock
    hist        \* history: quantities the properties are stated over

vars == <<config, lock, file, rulesFile, pc, configFile, yamlFile, err, logCfg, call, snapshot, hist>>

Main == "main"
Writer2 == "w1"
Reader == "r1"
Procs == {Main, Writer2, Reader}

NoBytes == Bytes(TRUE, EmptyDoc)
NoFile == [exists |-> FALSE, readable |-> FALSE, bytes |-> NoBytes]
FileOf(b) == [exists |-> TRUE, readable |-> TRUE, bytes |-> b]
Unreadable(b) == [exists |-> TRUE, readable |-> FALSE, bytes |-> b]
NilYaml == [nil |-> TRUE, bytes |-> NoBytes]

\* a writeAllConfigs call: its locals (yamlText, rules) and what it did so far
NoCall ==
    [firstRun |-> FALSE, store |-> defaultConfig, admin |-> "none",
     yamlText |-> EmptyDoc, rules |-> <<>>,
     cfgAttempted |-> FALSE, cfgErr |-> "", wroteCfg |-> FALSE,
     rulesAttempted |-> FALSE, rulesErr |-> "", wroteRules |-> FALSE, ret |-> ""]

\* the fields of the store that a file carries
Persisted(c) ==
    [c EXCEPT !.ourConfigFilename = <<>>, !.ourWorkingDir = <<>>, !.firstRun = FALSE,
              !.TLS.Status = zeroTLSStatus]

(***************************************************************************)
(* The files the model starts from, and what an administrator may change.  *)
(***************************************************************************)
Plain(t) == Scalar(t, FALSE)

TopSections ==
    { <<>>,
      << Pair("bind_port", Plain("8080")) >>,
      \* bind_port is not a number: a type error, and language follows it
      << Pair("bind_port", Plain("http")), Pair("language", Plain("en")) >> }

dupFiltersNode ==
    SeqNode(<< MapNode(<< Pair("id", Plain("1")), Pair("enabled", Plain("true")),
                          Pair("url", Plain("https://a.example/list.txt")),
                          Pair("name", Plain("A")) >>),
               MapNode(<< Pair("id", Plain("1")),
                          Pair("url", Plain("https://b.example/list.txt")),
                          Pair("name", Plain("B")) >>),
               MapNode(<< Pair("id", Plain("7")),
                          Pair("url", Plain("https://a.example/list.txt")),
                          Pair("name", Plain("A again")) >>),
               MapNode(<< Pair("url", Plain("https://c.example/list.txt")),
                          Pair("name", Plain("C")) >>) >>)

MidSections ==
    { <<>>,
      << Pair("dns", Plain("")) >>,
      << Pair("dns", MapNode(<< Pair("port", Plain("5353")) >>)) >>,
      << Pair("tls", MapNode(<< Pair("enabled", Plain("true")) >>)) >>,
      << Pair("tls", MapNode(<< Pair("enaled", Plain("true")),
                                Pair("port_https", Plain("8443")) >>)) >>,
      \* a tls section that names status fields, by the names yaml and json
      \* would give them
      << Pair("tls", MapNode(<< Pair("server_name", Plain("agh.example")),
                                Pair("validchain", Plain("true")),
                                Pair("valid_chain", Plain("true")),
                                Pair("subject", Plain("CN=agh.example")),
                                Pair("validkey", Plain("true")) >>)) >>,
      << Pair("filters", dupFiltersNode) >> }

LogSections ==
    { <<>>,
      << Pair("log_file", Plain("syslog")), Pair("verbose", Plain("true")) >>,
      \* verbose is not a boolean: a type error after log_file was decoded
      << Pair("log_file", Plain("/var/log/agh.log")), Pair("verbose", Plain("maybe")) >> }

MapDocs ==
    ({ MapNode(t \o l) : t \in TopSections, l \in LogSections }
     \cup { MapNode(m) : m \in MidSections })
    \ { MapNode(<<>>) }

\* bytes that are not YAML: the parser fails
Garbage == Bytes(FALSE, EmptyDoc)

InputBytes ==
    { Bytes(TRUE, d) : d \in MapDocs }
    \cup { Garbage, NoBytes, Bytes(TRUE, Plain("~")), Bytes(TRUE, Marshal(defaultConfig)) }

InputFiles ==
    { FileOf(b) : b \in InputBytes } \cup { NoFile, Unreadable(NoBytes) }

\* what the environment may put in place of the file while the program runs
EnvFiles ==
    { NoFile, Unreadable(NoBytes), FileOf(Garbage),
      FileOf(Bytes(TRUE, MapNode(<< Pair("bind_port", Plain("8080")),
                                    Pair("verbose", Plain("true")) >>))) }

exampleFilter == Filter(0, TRUE, "https://example.org/list.txt", "")

validatedStatus ==
    [zeroTLSStatus EXCEPT !.ValidChain = TRUE, !.Subject = "CN=agh.example",
                          !.Issuer = "CN=Example CA", !.NotBefore = 1, !.NotAfter = 2,
                          !.DNSNames = <<"agh.example">>, !.ValidKey = TRUE,
                          !.KeyType = "RSA"]

\* the stores an administrative operation can leave behind (the HTTP handlers
\* of control.go and the TLS validation; none of them is in config.go)
Mutations(c) ==
    { [c EXCEPT !.BindPort = 8080],
      [c EXCEPT !.AuthName = "admin", !.AuthPass = "3000", !.Language = "no",
                !.UserRules = <<"||ads.example^", "null">>, !.DHCP.Enabled = TRUE],
      [c EXCEPT !.TLS = [Settings |-> [@.Settings EXCEPT !.Enabled = TRUE,
                                                         !.ServerName = "agh.example"],
                         Status |-> validatedStatus]],
      [c EXCEPT !.Filters =
          IF \E i \in 1..Len(@) : @[i].URL = exampleFilter.URL THEN @
          ELSE Append(@, [exampleFilter EXCEPT !.ID = NextFreeID(IDsOf(c.Filters))])] }
    \ { c }

\* detectFirstRun() of app.go: the first run is the one that finds no file
detectFirstRun(f) == ~f.exists

(***************************************************************************)
(* Initial states: the store holds its defaults and no file has been read. *)
(***************************************************************************)
NoLog == [state |-> "none", err |-> ""]

NoParse ==
    [state |-> "none", pre |-> defaultConfig, bytes |-> NoBytes, err |-> "",
     steps |-> <<>>]             \* the normaliser calls it made, in order

InitHist(c) ==
    [restarts |-> 0, mutations |-> 0, envEdits |-> 0,
     statAbsent |-> FALSE,       \* the last os.Stat found no file
     edited |-> FALSE,           \* the file changed since start-up began reading
     found |-> "none",           \* what the last readConfigFile call met when it
                                 \* returned: "absent", "unreadable" or "read"
     parse |-> NoParse,          \* the last parseConfig call: how it ended
     log |-> NoLog,              \* the last getLogSettings call: how it ended
     written |-> Persisted(c),   \* the store as of the last file write() made
     fileOwn |-> FALSE,          \* the file is what write() last wrote
     loadedOwn |-> FALSE,        \* the store was loaded from such a file
     committed |-> {c}]          \* the stores between mutations

\* the state at start with file f on disk and the store c
InitFrom(f, c) ==
        /\ config = c
        /\ lock = [writer |-> "none", readers |-> {}]
        /\ file = f
        /\ rulesFile = [exists |-> FALSE, rules |-> <<>>]
        /\ configFile = <<>>
        /\ yamlFile = NilYaml
        /\ err = [p \in Procs |-> ""]
        /\ logCfg = zeroLogSettings
        /\ call = [p \in Procs |-> NoCall]
        /\ snapshot = c
        /\ hist = InitHist(c)

InitWith(f) == InitFrom(f, [defaultConfig EXCEPT !.firstRun = detectFirstRun(f)])

Init ==
    /\ \E f \in InputFiles : InitWith(f)
    /\ pc = [p \in Procs |-> IF p = Main THEN "log_stat" ELSE "off"]

(***************************************************************************)
(* readConfigFile, called by getLogSettings and by parseConfig.            *)
(***************************************************************************)
\* a variant of readConfigFile_Stat without the os.IsNotExist test: a missing
\* file is left to ioutil.ReadFile, which fails on it
readConfigFile_Stat_noAbsentTest ==
    /\ pc[Main] \in {"log_stat", "parse_stat"}
    /\ pc' = [pc EXCEPT ![Main] = IF @ = "log_stat" THEN "log_read" ELSE "parse_read"]
    /\ configFile' = getConfigFilename(config)
    /\ hist' = [hist EXCEPT !.statAbsent = ~file.exists]
    /\ UNCHANGED <<config, lock, file, rulesFile, yamlFile, err, logCfg, call, snapshot>>

\* os.Stat(configFile); os.IsNotExist(err) returns nil, nil
readConfigFile_Stat ==
    /\ pc[Main] \in {"log_stat", "parse_stat"}
    /\ IF ~file.exists
       THEN /\ yamlFile' = NilYaml
            /\ err' = [err EXCEPT ![Main] = ""]
            /\ pc' = [pc EXCEPT ![Main] = IF @ = "log_stat" THEN "log_ret" ELSE "parse_ret"]
       ELSE /\ pc' = [pc EXCEPT ![Main] = IF @ = "log_stat" THEN "log_read" ELSE "parse_read"]
            /\ UNCHANGED <<yamlFile, err>>
    /\ configFile' = getConfigFilename(config)
    /\ hist' = [hist EXCEPT !.statAbsent = ~file.exists,
                            !.found = IF ~file.exists THEN "absent" ELSE "none"]
    /\ UNCHANGED <<config, lock, file, rulesFile, logCfg, call, snapshot>>

\* ioutil.ReadFile(configFile): the whole file, or nil and an error
readConfigFile_ReadFile ==
    /\ pc[Main] \in {"log_read", "parse_read"}
    /\ IF ~file.exists
       THEN yamlFile' = NilYaml /\ err' = [err EXCEPT ![Main] = "ENOENT"]
       ELSE IF ~file.readable
       THEN yamlFile' = NilYaml /\ err' = [err EXCEPT ![Main] = "EACCES"]
       ELSE /\ yamlFile' = [nil |-> FALSE, bytes |-> file.bytes]
            /\ err' = [err EXCEPT ![Main] = ""]
    /\ pc' = [pc EXCEPT ![Main] = IF @ = "log_read" THEN "log_ret" ELSE "parse_ret"]
    /\ hist' = [hist EXCEPT
                  !.loadedOwn = IF pc[Main] = "parse_read"
                                THEN hist.fileOwn /\ file.exists /\ file.readable
                                ELSE @,
                  !.found = IF ~file.exists THEN "absent"
                            ELSE IF ~file.readable THEN "unreadable" ELSE "read"]
    /\ UNCHANGED <<config, lock, file, rulesFile, configFile, logCfg, call, snapshot>>

(***************************************************************************)
(* getLogSettings, after its readConfigFile call.                          *)
(***************************************************************************)
\* a variant of getLogSettings_return that decodes into a copy and returns
\* the untouched l
getLogSettings_return_untouched(u) ==
    /\ logCfg' = zeroLogSettings
    /\ hist' = [hist EXCEPT !.log = [state |-> IF u.err # "" THEN "failed" ELSE "ok",
                                     err |-> u.err]]

\* l as Unmarshal left it: an error is logged and l is returned all the same
getLogSettings_return(u) ==
    /\ logCfg' = u.v
    /\ hist' = [hist EXCEPT !.log = [state |-> IF u.err # "" THEN "failed" ELSE "ok",
                                     err |-> u.err]]

getLogSettings ==
    /\ pc[Main] = "log_ret"
    /\ IF err[Main] # "" \/ yamlFile.nil
       THEN /\ logCfg' = zeroLogSettings
            /\ hist' = [hist EXCEPT !.log = [state |-> IF err[Main] # "" THEN "ioerror"
                                                       ELSE "absent",
                                             err |-> err[Main]]]
       ELSE getLogSettings_return(UnmarshalLog(yamlFile.bytes, zeroLogSettings))
    /\ pc' = [pc EXCEPT ![Main] = "parse_stat"]
    /\ UNCHANGED <<config, lock, file, rulesFile, configFile, yamlFile, err, call, snapshot>>

(***************************************************************************)
(* parseConfig, after its readConfigFile call: no lock is taken.           *)
(***************************************************************************)
\* the store once the filter normaliser has run
Normalized(c) == [c EXCEPT !.Filters = updateUniqueFilterID(deduplicateFilters(@))]

\* a variant of parseConfig_unmarshalled that returns nil right after a
\* successful yaml.Unmarshal, without the calls of lines 179 and 181
parseConfig_unmarshalled_noNormalizer(u) ==
    /\ config' = u.v
    /\ err' = [err EXCEPT ![Main] = u.err]
    /\ pc' = [pc EXCEPT ![Main] = IF u.err # "" THEN "aborted" ELSE "running"]
    /\ hist' = [hist EXCEPT
                  !.parse = [state |-> IF u.err # "" THEN "failed" ELSE "loaded",
                             pre |-> config, bytes |-> yamlFile.bytes, err |-> u.err,
                             steps |-> <<>>],
                  !.committed = {config, u.v}]

\* the store after yaml.Unmarshal(yamlFile, &config), and the error test
parseConfig_unmarshalled(u) ==
    /\ config' = u.v
    /\ err' = [err EXCEPT ![Main] = u.err]
    /\ pc' = [pc EXCEPT ![Main] = IF u.err # "" THEN "aborted" ELSE "parse_dedup"]
    /\ hist' = [hist EXCEPT
                  !.parse = [state |-> IF u.err # "" THEN "failed" ELSE "loading",
                             pre |-> config, bytes |-> yamlFile.bytes, err |-> u.err,
                             steps |-> <<>>],
                  !.committed = IF u.err # "" THEN {config, u.v}
                                ELSE {config, Normalized(u.v)}]

parseConfig_Unmarshal ==
    /\ pc[Main] = "parse_ret"
    /\ IF err[Main] # ""
       THEN /\ pc' = [pc EXCEPT ![Main] = "aborted"]
            /\ hist' = [hist EXCEPT !.parse = [state |-> "failed", pre |-> config,
                                               bytes |-> NoBytes, err |-> err[Main],
                                               steps |-> <<>>]]
            /\ UNCHANGED <<config, err>>
       ELSE IF yamlFile.nil
       THEN /\ pc' = [pc EXCEPT ![Main] = "running"]
            /\ hist' = [hist EXCEPT !.parse = [state |-> "absent", pre |-> config,
                                               bytes |-> NoBytes, err |-> "",
                                               steps |-> <<>>]]
            /\ UNCHANGED <<config, err>>
       ELSE parseConfig_unmarshalled(Unmarshal(yamlFile.bytes, config))
    /\ UNCHANGED <<lock, file, rulesFile, configFile, yamlFile, logCfg, call, snapshot>>

parseConfig_deduplicateFilters ==
    /\ pc[Main] = "parse_dedup"
    /\ config' = [config EXCEPT !.Filters = deduplicateFilters(@)]
    /\ pc' = [pc EXCEPT ![Main] = "parse_updateid"]
    /\ hist' = [hist EXCEPT !.parse.steps = Append(@, "deduplicateFilters")]
    /\ UNCHANGED <<lock, file, rulesFile, configFile, yamlFile, err, logCfg, call, snapshot>>

\* a variant of parseConfig_updateUniqueFilterID in which line 181 has no
\* effect on config.Filters
parseConfig_updateUniqueFilterID_noEffect ==
    /\ pc[Main] = "parse_updateid"
    /\ pc' = [pc EXCEPT ![Main] = "running"]
    /\ hist' = [hist EXCEPT !.parse.state = "loaded",
                            !.parse.steps = Append(@, "updateUniqueFilterID")]
    /\ UNCHANGED <<config, lock, file, rulesFile, configFile, yamlFile, err, logCfg, call, snapshot>>

parseConfig_updateUniqueFilterID ==
    /\ pc[Main] = "parse_updateid"
    /\ config' = [config EXCEPT !.Filters = updateUniqueFilterID(@)]
    /\ pc' = [pc EXCEPT ![Main] = "running"]
    /\ hist' = [hist EXCEPT !.parse.state = "loaded",
                            !.parse.steps = Append(@, "updateUniqueFilterID")]
    /\ UNCHANGED <<lock, file, rulesFile, configFile, yamlFile, err, logCfg, call, snapshot>>

(***************************************************************************)
(* configuration.write and writeAllConfigs, called by process p.           *)
(***************************************************************************)
writeAllConfigs_Call(p) ==
    /\ pc[p] = "running"
    /\ pc' = [pc EXCEPT ![p] = "w_lock"]
    /\ call' = [call EXCEPT ![p] = [NoCall EXCEPT !.firstRun = config.firstRun,
                                                  !.store = config]]
    /\ UNCHANGED <<config, lock, file, rulesFile, configFile, yamlFile, err, logCfg, snapshot, hist>>

\* c.Lock(): waits until no reader and no writer holds the mutex
write_Lock(p) ==
    /\ pc[p] = "w_lock"
    /\ lock.writer = "none"
    /\ lock.readers = {}
    /\ lock' = [lock EXCEPT !.writer = p]
    /\ pc' = [pc EXCEPT ![p] = "w_check"]
    /\ UNCHANGED <<config, file, rulesFile, configFile, yamlFile, err, logCfg, call, snapshot, hist>>

\* the first-run test and yaml.Marshal(&config); the error branch of lines
\* 207-210 is taken when the encoder reports an error
write_Marshal(p) ==
    /\ pc[p] = "w_check"
    /\ IF config.firstRun
       THEN /\ err' = [err EXCEPT ![p] = ""]
            /\ pc' = [pc EXCEPT ![p] = "w_unlock"]
            /\ UNCHANGED <<call, configFile>>
       ELSE \E ok \in BOOLEAN :
              /\ configFile' = getConfigFilename(config)
              /\ IF ok
                 THEN /\ call' = [call EXCEPT ![p].yamlText = Marshal(config)]
                      /\ pc' = [pc EXCEPT ![p] = "w_safeWrite"]
                      /\ UNCHANGED err
                 ELSE /\ call' = [call EXCEPT ![p].cfgErr = "yaml: marshal error"]
                      /\ err' = [err EXCEPT ![p] = "yaml: marshal error"]
                      /\ pc' = [pc EXCEPT ![p] = "w_unlock"]
    /\ UNCHANGED <<config, lock, file, rulesFile, yamlFile, logCfg, snapshot, hist>>

\* a variant of write_safeWriteFile that logs a failed write and returns nil
write_safeWriteFile_swallowError(p) ==
    /\ pc[p] = "w_safeWrite"
    /\ \E ok \in BOOLEAN :
         IF ok
         THEN /\ file' = FileOf(Bytes(TRUE, call[p].yamlText))
              /\ call' = [call EXCEPT ![p].cfgAttempted = TRUE, ![p].wroteCfg = TRUE]
              /\ hist' = [hist EXCEPT !.written = Persisted(config), !.fileOwn = TRUE]
         ELSE /\ call' = [call EXCEPT ![p].cfgAttempted = TRUE,
                                      ![p].cfgErr = "safeWriteFile failed"]
              /\ UNCHANGED <<file, hist>>
    /\ err' = [err EXCEPT ![p] = ""]
    /\ pc' = [pc EXCEPT ![p] = "w_unlock"]
    /\ UNCHANGED <<config, lock, rulesFile, configFile, yamlFile, logCfg, snapshot>>

\* safeWriteFile(configFile, yamlText): the file is replaced whole, or an error
write_safeWriteFile(p) ==
    /\ pc[p] = "w_safeWrite"
    /\ \E ok \in BOOLEAN :
         IF ok
         THEN /\ file' = FileOf(Bytes(TRUE, call[p].yamlText))
              /\ err' = [err EXCEPT ![p] = ""]
              /\ call' = [call EXCEPT ![p].cfgAttempted = TRUE, ![p].wroteCfg = TRUE]
              /\ hist' = [hist EXCEPT !.written = Persisted(config), !.fileOwn = TRUE]
         ELSE /\ err' = [err EXCEPT ![p] = "safeWriteFile failed"]
              /\ call' = [call EXCEPT ![p].cfgAttempted = TRUE,
                                      ![p].cfgErr = "safeWriteFile failed"]
              /\ UNCHANGED <<file, hist>>
    /\ pc' = [pc EXCEPT ![p] = "w_unlock"]
    /\ UNCHANGED <<config, lock, rulesFile, configFile, yamlFile, logCfg, snapshot>>

\* a variant of write_Unlock for a write() whose Unlock is not deferred but
\* stands before the final return: the error returns leave the mutex locked
write_Unlock_notDeferred(p) ==
    /\ pc[p] = "w_unlock"
    /\ lock' = IF err[p] # "" \/ call[p].firstRun THEN lock
               ELSE [lock EXCEPT !.writer = "none"]
    /\ IF err[p] # ""
       THEN /\ pc' = [pc EXCEPT ![p] = "wa_ret"]
            /\ call' = [call EXCEPT ![p].ret = err[p]]
       ELSE /\ pc' = [pc EXCEPT ![p] = "s_userFilter"]
            /\ UNCHANGED call
    /\ UNCHANGED <<config, file, rulesFile, configFile, yamlFile, err, logCfg, snapshot, hist>>

\* the deferred c.Unlock(), and writeAllConfigs's test of what write returned
write_Unlock(p) ==
    /\ pc[p] = "w_unlock"
    /\ lock' = [lock EXCEPT !.writer = "none"]
    /\ IF err[p] # ""
       THEN /\ pc' = [pc EXCEPT ![p] = "wa_ret"]
            /\ call' = [call EXCEPT ![p].ret = err[p]]
       ELSE /\ pc' = [pc EXCEPT ![p] = "s_userFilter"]
            /\ UNCHANGED call
    /\ UNCHANGED <<config, file, rulesFile, configFile, yamlFile, err, logCfg, snapshot, hist>>

\* userFilter(): a filter holding config.UserRules
writeAllConfigs_userFilter(p) ==
    /\ pc[p] = "s_userFilter"
    /\ call' = [call EXCEPT ![p].rules = config.UserRules]
    /\ pc' = [pc EXCEPT ![p] = "s_save"]
    /\ UNCHANGED <<config, lock, file, rulesFile, configFile, yamlFile, err, logCfg, snapshot, hist>>

\* userFilter.save(): writes the rules to the user filter's file, or an error
writeAllConfigs_save(p) ==
    /\ pc[p] = "s_save"
    /\ \E ok \in BOOLEAN :
         IF ok
         THEN /\ rulesFile' = [exists |-> TRUE, rules |-> call[p].rules]
              /\ err' = [err EXCEPT ![p] = ""]
              /\ call' = [call EXCEPT ![p].rulesAttempted = TRUE, ![p].wroteRules = TRUE,
                                      ![p].ret = ""]
         ELSE /\ err' = [err EXCEPT ![p] = "save failed"]
              /\ call' = [call EXCEPT ![p].rulesAttempted = TRUE,
                                      ![p].rulesErr = "save failed",
                                      ![p].ret = "save failed"]
              /\ UNCHANGED rulesFile
    /\ pc' = [pc EXCEPT ![p] = "wa_ret"]
    /\ UNCHANGED <<config, lock, file, configFile, yamlFile, logCfg, snapshot, hist>>

\* writeAllConfigs returns call[p].ret; its locals go out of scope
writeAllConfigs_Return(p) ==
    /\ pc[p] = "wa_ret"
    /\ pc' = [pc EXCEPT ![p] = IF call[p].admin = "held" THEN "a_unlock" ELSE "running"]
    /\ call' = [call EXCEPT ![p] = NoCall]
    /\ err' = [err EXCEPT ![p] = ""]
    /\ UNCHANGED <<config, lock, file, rulesFile, configFile, yamlFile, logCfg, snapshot, hist>>

writeAllConfigs(p) ==
    \/ writeAllConfigs_Call(p)
    \/ write_Lock(p)
    \/ write_Marshal(p)
    \/ write_safeWriteFile(p)
    \/ write_Unlock(p)
    \/ writeAllConfigs_userFilter(p)
    \/ writeAllConfigs_save(p)
    \/ writeAllConfigs_Return(p)

(***************************************************************************)
(* A reader of the store: RLock, read, RUnlock.                            *)
(***************************************************************************)
reader_RLock ==
    /\ pc[Reader] = "r_idle"
    /\ lock.writer = "none"
    /\ lock' = [lock EXCEPT !.readers = @ \cup {Reader}]
    /\ pc' = [pc EXCEPT ![Reader] = "r_read"]
    /\ UNCHANGED <<config, file, rulesFile, configFile, yamlFile, err, logCfg, call, snapshot, hist>>

reader_Read ==
    /\ pc[Reader] = "r_read"
    /\ snapshot' = config
    /\ pc' = [pc EXCEPT ![Reader] = "r_unlock"]
    /\ UNCHANGED <<config, lock, file, rulesFile, configFile, yamlFile, err, logCfg, call, hist>>

reader_RUnlock ==
    /\ pc[Reader] = "r_unlock"
    /\ lock' = [lock EXCEPT !.readers = @ \ {Reader}]
    /\ pc' = [pc EXCEPT ![Reader] = "r_idle"]
    /\ UNCHANGED <<config, file, rulesFile, configFile, yamlFile, err, logCfg, call, snapshot, hist>>

(***************************************************************************)
(* The rest of the program and its environment.                            *)
(***************************************************************************)
\* an administrative operation changes the store
AdminMutate ==
    /\ pc[Main] = "running"
    /\ hist.mutations < MaxMutations
    /\ \E c \in Mutations(config) : config' = c
    /\ hist' = [hist EXCEPT !.mutations = @ + 1, !.loadedOwn = FALSE,
                            !.committed = {config'}]
    /\ UNCHANGED <<lock, file, rulesFile, pc, configFile, yamlFile, err, logCfg, call, snapshot>>

\* the setup flow clears the first-run flag
SetupDone ==
    /\ pc[Main] = "running"
    /\ config.firstRun
    /\ config' = [config EXCEPT !.firstRun = FALSE]
    /\ hist' = [hist EXCEPT !.committed = {config'}]
    /\ UNCHANGED <<lock, file, rulesFile, pc, configFile, yamlFile, err, logCfg, call, snapshot>>

\* the process ends (or startup was aborted) and is started again
Restart ==
    /\ pc[Main] \in {"running", "aborted"}
    /\ hist.restarts < MaxRestarts
    /\ config' = [defaultConfig EXCEPT !.firstRun = detectFirstRun(file)]
    /\ pc' = [pc EXCEPT ![Main] = "log_stat"]
    /\ configFile' = <<>>
    /\ yamlFile' = NilYaml
    /\ err' = [p \in Procs |-> ""]
    /\ logCfg' = zeroLogSettings
    /\ call' = [p \in Procs |-> NoCall]
    /\ hist' = [hist EXCEPT !.restarts = @ + 1, !.mutations = 0, !.parse = NoParse,
                            !.log = NoLog, !.statAbsent = FALSE, !.found = "none",
                            !.edited = FALSE,
                            !.loadedOwn = FALSE, !.committed = {config'}]
    /\ UNCHANGED <<lock, file, rulesFile, snapshot>>

\* someone else replaces, removes or protects the configuration file.  Only
\* start-up reads the file, so an edit made later is the same edit made just
\* before the next start.
EnvEdit ==
    /\ hist.envEdits < MaxEnvEdits
    /\ pc[Main] \in {"log_stat", "log_read", "log_ret", "parse_stat", "parse_read"}
    /\ \E f \in EnvFiles : f # file /\ file' = f
    /\ hist' = [hist EXCEPT !.envEdits = @ + 1, !.fileOwn = FALSE,
                            !.edited = @ \/ pc[Main] # "log_stat"]
    /\ UNCHANGED <<config, lock, rulesFile, pc, configFile, yamlFile, err, logCfg, call, snapshot>>

(***************************************************************************)
(* Spec: one process through start-up, administration, saving and restart, *)
(* with the file changing under it.                                        *)
(***************************************************************************)
Next ==
    \/ readConfigFile_Stat
    \/ readConfigFile_ReadFile
    \/ getLogSettings
    \/ parseConfig_Unmarshal
    \/ parseConfig_deduplicateFilters
    \/ parseConfig_updateUniqueFilterID
    \/ writeAllConfigs(Main)
    \/ AdminMutate
    \/ SetupDone
    \/ Restart
    \/ EnvEdit

Spec == Init /\ [][Next]_vars

(***************************************************************************)
(* SpecConc: the load, two callers of writeAllConfigs and a reader, all    *)
(* running at once.                                                        *)
(***************************************************************************)
ConcFiles ==
    { NoFile,
      FileOf(Bytes(TRUE, MapNode(<< Pair("bind_port", Plain("8080")),
                                    Pair("filters", dupFiltersNode) >>))) }

InitConc ==
    /\ \E f \in ConcFiles : InitWith(f)
    /\ pc = [p \in Procs |-> IF p = Main THEN "log_stat"
                             ELSE IF p = Reader THEN "r_idle" ELSE "running"]

NextConc ==
    \/ readConfigFile_Stat
    \/ readConfigFile_ReadFile
    \/ getLogSettings
    \/ parseConfig_Unmarshal
    \/ parseConfig_deduplicateFilters
    \/ parseConfig_updateUniqueFilterID
    \/ \E p \in {Main, Writer2} : writeAllConfigs(p)
    \/ reader_RLock
    \/ reader_Read
    \/ reader_RUnlock

SpecConc == InitConc /\ [][NextConc]_vars

\* SpecConcFair: a goroutine that can take a step takes it; a goroutine
\* waiting in Lock() gets the mutex when it is free again and again, since a
\* waiting writer of sync.RWMutex keeps new readers out and sync.Mutex hands
\* the mutex to a starved waiter
FairConc ==
    /\ \A p \in {Main, Writer2} :
          /\ SF_vars(write_Lock(p))
          /\ WF_vars(write_Marshal(p))
          /\ WF_vars(write_safeWriteFile(p))
          /\ WF_vars(write_Unlock(p))
    /\ WF_vars(reader_Read)
    /\ WF_vars(reader_RUnlock)

SpecConcFair == SpecConc /\ FairConc

(***************************************************************************)
(* An administrative operation as section 5 of the specification describes *)
(* it: exclusive access, the mutation, then the Persister.  The handlers   *)
(* are in control.go; the Persister they call is writeAllConfigs.          *)
(***************************************************************************)
\* config.Lock() by the operation
admin_Lock(p) ==
    /\ pc[p] = "running"
    /\ hist.mutations < MaxMutations
    /\ lock.writer = "none"
    /\ lock.readers = {}
    /\ lock' = [lock EXCEPT !.writer = p]
    /\ pc' = [pc EXCEPT ![p] = "a_mutate"]
    /\ UNCHANGED <<config, file, rulesFile, configFile, yamlFile, err, logCfg, call, snapshot, hist>>

admin_Mutate(p) ==
    /\ pc[p] = "a_mutate"
    /\ \E c \in Mutations(config) : config' = c
    /\ hist' = [hist EXCEPT !.mutations = @ + 1, !.loadedOwn = FALSE,
                            !.committed = @ \cup {config'}]
    /\ pc' = [pc EXCEPT ![p] = "a_persist"]
    /\ UNCHANGED <<lock, file, rulesFile, configFile, yamlFile, err, logCfg, call, snapshot>>

\* the operation calls writeAllConfigs() while it holds the lock
admin_Persist(p) ==
    /\ pc[p] = "a_persist"
    /\ pc' = [pc EXCEPT ![p] = "w_lock"]
    /\ call' = [call EXCEPT ![p] = [NoCall EXCEPT !.firstRun = config.firstRun,
                                                  !.store = config, !.admin = "held"]]
    /\ UNCHANGED <<config, lock, file, rulesFile, configFile, yamlFile, err, logCfg, snapshot, hist>>

\* the operation releases the lock and then calls writeAllConfigs()
admin_UnlockThenPersist(p) ==
    /\ pc[p] = "a_persist"
    /\ lock' = [lock EXCEPT !.writer = "none"]
    /\ pc' = [pc EXCEPT ![p] = "w_lock"]
    /\ call' = [call EXCEPT ![p] = [NoCall EXCEPT !.firstRun = config.firstRun,
                                                  !.store = config, !.admin = "released"]]
    /\ UNCHANGED <<config, file, rulesFile, configFile, yamlFile, err, logCfg, snapshot, hist>>

\* config.Unlock() by the operation: after the Persister returned, or at
\* once when the operation does not persist
admin_Unlock(p) ==
    /\ pc[p] \in {"a_persist", "a_unlock"}
    /\ lock' = [lock EXCEPT !.writer = "none"]
    /\ pc' = [pc EXCEPT ![p] = "running"]
    /\ UNCHANGED <<config, file, rulesFile, configFile, yamlFile, err, logCfg, call, snapshot, hist>>

admin(p) ==
    \/ admin_Lock(p)
    \/ admin_Mutate(p)
    \/ admin_Persist(p)
    \/ admin_UnlockThenPersist(p)
    \/ admin_Unlock(p)

(***************************************************************************)
(* SpecAdmin: after start-up, two handlers run such operations or call     *)
(* writeAllConfigs directly, and a reader reads.                           *)
(***************************************************************************)
InitAdmin ==
    /\ \E f \in ConcFiles : InitWith(f)
    /\ pc = [p \in Procs |-> IF p = Reader THEN "r_idle" ELSE "running"]

NextAdmin ==
    \/ \E p \in {Main, Writer2} : writeAllConfigs(p)
    \/ \E p \in {Main, Writer2} : admin(p)
    \/ reader_RLock
    \/ reader_Read
    \/ reader_RUnlock

SpecAdmin == InitAdmin /\ [][NextAdmin]_vars

(***************************************************************************)
(* SpecPath: start-up and a save, for the file names and working           *)
(* directories that the command line can set (app.go sets both fields).    *)
(***************************************************************************)
Filenames ==
    { <<"AdGuardHome.yaml">>,
      <<"sub", "/", "conf.yaml">>,
      <<"/", "tmp", "/", "x.yaml">>,
      <<"/", "tmp", "/", "/", "x.yaml">>,
      <<"/", "tmp", "/", "..", "/", "x.yaml">>,
      <<".", "/", "conf.yaml">>,
      <<"..", "/", "conf.yaml">>,
      <<"sub", "/">>,
      <<>> }

WorkingDirs ==
    { <<>>, <<"/">>, <<"/", "etc", "/", "app">>, <<"/", "etc", "/", "app", "/">>,
      <<"work">>, <<".">> }

PathFiles ==
    { NoFile, Unreadable(NoBytes), FileOf(Garbage),
      FileOf(Bytes(TRUE, MapNode(<< Pair("bind_port", Plain("8080")) >>))) }

InitPath ==
    /\ \E fn \in Filenames, wd \in WorkingDirs, f \in PathFiles :
           InitFrom(f, [defaultConfig EXCEPT !.ourConfigFilename = fn,
                                             !.ourWorkingDir = wd,
                                             !.firstRun = detectFirstRun(f)])
    /\ pc = [p \in Procs |-> IF p = Main THEN "log_stat" ELSE "off"]

NextPath ==
    \/ readConfigFile_Stat
    \/ readConfigFile_ReadFile
    \/ getLogSettings
    \/ parseConfig_Unmarshal
    \/ parseConfig_deduplicateFilters
    \/ parseConfig_updateUniqueFilterID
    \/ writeAllConfigs(Main)
    \/ SetupDone

SpecPath == InitPath /\ [][NextPath]_vars

(***************************************************************************)
(* Properties.                                                             *)
(***************************************************************************)
Callers == {Main, Writer2}

\* C1: first-run suppression.  A writeAllConfigs call made while the
\* first-run flag is set returns success and has written neither the
\* configuration file nor the user filter's file.
FirstRunSuppression ==
    \A p \in Callers :
        (pc[p] = "wa_ret" /\ call[p].firstRun)
            => /\ call[p].ret = ""
               /\ ~call[p].wroteCfg
               /\ ~call[p].wroteRules

YamlErrors == {"yaml: syntax error", "yaml: unmarshal errors"}

\* C2: malformed input.  When the bytes of the file cannot be deserialized,
\* parseConfig returns an error and the store is what it was before the call.
MalformedInputLeavesStore ==
    (hist.parse.state = "failed" /\ hist.parse.err \in YamlErrors /\ pc[Main] = "aborted")
        => config = hist.parse.pre

\* C3: mutation is exclusive.  What a reader reads under the read lock is
\* always a store between mutations: the one before the load or the loaded
\* and normalised one, never the loaded store whose filters are not yet
\* normalised.
MutationIsExclusive ==
    pc[Reader] = "r_unlock" => snapshot \in hist.committed

\* C4: single writer per file.  At any moment at most one process is inside
\* safeWriteFile on the configuration file and at most one is inside save()
\* on the user filter's file.
SingleWriterPerFile ==
    /\ Cardinality({p \in Callers : pc[p] = "w_safeWrite"}) <= 1
    /\ Cardinality({p \in Callers : pc[p] = "s_save"}) <= 1

\* C5: both persistence writes are attempted.  A writeAllConfigs call made
\* with the first-run flag clear has attempted the configuration-file write
\* and the user-rules save when it returns, also when the first failed, and
\* returns an error if either failed.
BothWritesAttempted ==
    \A p \in Callers :
        (pc[p] = "wa_ret" /\ ~call[p].firstRun)
            => /\ call[p].cfgAttempted
               /\ call[p].rulesAttempted
               /\ (call[p].cfgErr # "" \/ call[p].rulesErr # "") => call[p].ret # ""

AtDefaults(c) ==
    /\ Persisted(c) = Persisted(defaultConfig)
    /\ c.TLS = defaultConfig.TLS
    /\ c.BindPort = 3000
    /\ c.DNS.Port = 53
    /\ c.DNS.UpstreamDNS = <<"tls://1.1.1.1", "tls://1.0.0.1">>
    /\ Len(c.Filters) = 4

\* C6: absence handling.  When os.Stat finds no file, readConfigFile returns
\* nil bytes and no error, parseConfig returns nil, and the store keeps its
\* built-in defaults.
AbsenceHandling ==
    /\ (hist.statAbsent /\ pc[Main] \in {"log_ret", "parse_ret"})
           => (yamlFile.nil /\ err[Main] = "")
    /\ (hist.statAbsent /\ hist.parse.state # "none")
           => /\ hist.parse.state = "absent"
              /\ hist.parse.err = ""
              /\ pc[Main] # "aborted"
              /\ hist.mutations = 0 => AtDefaults(config)

\* C6 witness: parseConfig has returned nil on a missing file
AbsenceHandlingWitness ==
    /\ hist.statAbsent
    /\ hist.parse.state = "absent"
    /\ pc[Main] = "running"
    /\ ~file.exists

\* C7: the early settings extractor falls back to defaults.  When the file
\* is absent or unreadable, or its deserialization fails, getLogSettings
\* returns exactly the zero logSettings.
LogSettingsDefaultOnFailure ==
    hist.log.state \in {"absent", "ioerror", "failed"} => logCfg = zeroLogSettings

\* C8: round trip.  A store loaded by parseConfig from the file that write()
\* wrote equals, in its persisted fields, the store that was written.
RoundTrip ==
    (hist.parse.state = "loaded" /\ hist.loadedOwn /\ hist.mutations = 0)
        => Persisted(config) = hist.written

\* C8 witness: a store that an administrator changed (a password that reads
\* as a number, a rule that reads as null) was written, and loaded again
\* after a restart
RoundTripWitness ==
    /\ hist.parse.state = "loaded"
    /\ hist.loadedOwn
    /\ hist.mutations = 0
    /\ hist.restarts > 0
    /\ hist.written.AuthPass = "3000"
    /\ pc[Main] = "running"

\* the document has the top-level key k
Specifies(doc, k) == doc.kind = "map" /\ HasKey(doc, k)

SectionHas(sec, k) == sec.kind = "map" /\ HasKey(sec, k)

\* the document has the key k inside its section sec
SpecifiesIn(doc, sec, k) == Specifies(doc, sec) /\ SectionHas(Get(doc, sec), k)

\* the fields of c and pre whose keys the document lacks are equal
FrameOf(doc, c, pre) ==
    /\ ~Specifies(doc, "bind_host") => c.BindHost = pre.BindHost
    /\ ~Specifies(doc, "bind_port") => c.BindPort = pre.BindPort
    /\ ~Specifies(doc, "auth_name") => c.AuthName = pre.AuthName
    /\ ~Specifies(doc, "auth_pass") => c.AuthPass = pre.AuthPass
    /\ ~Specifies(doc, "language") => c.Language = pre.Language
    /\ ~SpecifiesIn(doc, "dns", "bind_host") => c.DNS.BindHost = pre.DNS.BindHost
    /\ ~SpecifiesIn(doc, "dns", "port") => c.DNS.Port = pre.DNS.Port
    /\ ~SpecifiesIn(doc, "dns", "ratelimit") => c.DNS.Ratelimit = pre.DNS.Ratelimit
    /\ ~SpecifiesIn(doc, "dns", "bootstrap_dns") => c.DNS.BootstrapDNS = pre.DNS.BootstrapDNS
    /\ ~SpecifiesIn(doc, "dns", "upstream_dns") => c.DNS.UpstreamDNS = pre.DNS.UpstreamDNS
    /\ ~SpecifiesIn(doc, "tls", "enabled")
           => c.TLS.Settings.Enabled = pre.TLS.Settings.Enabled
    /\ ~SpecifiesIn(doc, "tls", "port_https")
           => c.TLS.Settings.PortHTTPS = pre.TLS.Settings.PortHTTPS
    /\ ~SpecifiesIn(doc, "tls", "port_dns_over_tls")
           => c.TLS.Settings.PortDNSOverTLS = pre.TLS.Settings.PortDNSOverTLS
    /\ ~Specifies(doc, "filters") => c.Filters = pre.Filters
    /\ ~Specifies(doc, "user_rules") => c.UserRules = pre.UserRules
    /\ ~Specifies(doc, "dhcp") => c.DHCP = pre.DHCP
    /\ ~Specifies(doc, "log_file") => c.LogFile = pre.LogFile
    /\ ~Specifies(doc, "verbose") => c.Verbose = pre.Verbose
    /\ ~Specifies(doc, "schema_version") => c.SchemaVersion = pre.SchemaVersion

\* the fields of c whose keys the document has hold the document's values
OverlayOf(doc, c) ==
    /\ (Specifies(doc, "bind_port") /\ Get(doc, "bind_port") = Plain("8080"))
           => c.BindPort = 8080
    /\ (SpecifiesIn(doc, "dns", "port") /\ Get(Get(doc, "dns"), "port") = Plain("5353"))
           => c.DNS.Port = 5353
    /\ (SpecifiesIn(doc, "tls", "enabled")
        /\ Get(Get(doc, "tls"), "enabled") = Plain("true"))
           => c.TLS.Settings.Enabled

\* C9: merge, not replace.  After parseConfig has loaded a file, every field
\* whose key the file has holds the file's value and every field whose key
\* the file lacks holds the value it had before the load.
MergeNotReplace ==
    (hist.parse.state = "loaded" /\ hist.mutations = 0 /\ hist.parse.bytes.syntaxOK)
        => /\ FrameOf(hist.parse.bytes.doc, Persisted(config), Persisted(hist.parse.pre))
           /\ OverlayOf(hist.parse.bytes.doc, config)

TopLevelKeys ==
    << "bind_host", "bind_port", "auth_name", "auth_pass", "language", "dns", "tls",
       "filters", "user_rules", "dhcp", "log_file", "verbose", "schema_version" >>

TLSKeys == << "enabled", "server_name", "force_https", "port_https", "port_dns_over_tls" >>

\* C10: persisted key order and names.  A file that write() wrote has its
\* top-level keys in the fixed order, schema_version last, and its tls
\* section starts with enabled, server_name, force_https, port_https,
\* port_dns_over_tls.
PersistedKeyOrder ==
    hist.fileOwn
        => /\ Keys(file.bytes.doc) = TopLevelKeys
           /\ SubSeq(Keys(Get(file.bytes.doc, "tls")), 1, 5) = TLSKeys

\* the error a writeAllConfigs call met, "" when it met none
FailureOf(c) == IF c.cfgErr # "" THEN c.cfgErr ELSE c.rulesErr

\* C11: persistence errors bubble to the caller without side effects on the
\* store.  When yaml.Marshal, safeWriteFile or save() fails, writeAllConfigs
\* returns that error, the process is not aborted, and the store is what it
\* was when the call was made.
PersistenceErrorsBubble ==
    \A p \in Callers :
        (pc[p] = "wa_ret" /\ FailureOf(call[p]) # "")
            => /\ call[p].ret = FailureOf(call[p])
               /\ config = call[p].store
               /\ pc[Main] # "aborted"
               /\ lock.writer # p

\* C11 witness: a changed store could not be written to the file
PersistenceErrorsBubbleWitness ==
    /\ pc[Main] = "wa_ret"
    /\ call[Main].cfgErr = "safeWriteFile failed"
    /\ call[Main].ret = "safeWriteFile failed"
    /\ hist.mutations > 0

\* a relative path of names only: no empty, "." or ".." component
RECURSIVE PlainRel(_)
PlainRel(path) ==
    /\ path # <<>>
    /\ Head(path) \notin {"/", ".", "..", ""}
    /\ Len(path) > 1 => (path[2] = "/" /\ PlainRel(SubSeq(path, 3, Len(path))))

\* no part of the path is "." or ".."
NoDots(path) == \A i \in 1..Len(path) : path[i] \notin {".", ".."}

\* getConfigFilename has returned into configFile
PathResolved == pc[Main] # "log_stat"

PathCases(fn, wd) ==
    /\ IsAbs(fn) => configFile = fn
    /\ (PlainRel(fn) /\ IsAbs(wd) /\ PlainRel(Tail(wd)))
           => configFile = wd \o <<"/">> \o fn
    /\ (PlainRel(fn) /\ wd = <<"/">>) => configFile = <<"/">> \o fn
    /\ (PlainRel(fn) /\ wd = <<>>) => configFile = fn
    /\ (fn = <<"sub", "/", "conf.yaml">> /\ wd = <<"/", "etc", "/", "app">>)
           => configFile = <<"/", "etc", "/", "app", "/", "sub", "/", "conf.yaml">>
    /\ (~IsAbs(fn) /\ IsAbs(wd)) => (IsAbs(configFile) /\ NoDots(configFile))

\* C12: path resolution.  getConfigFilename returns an absolute file name
\* unchanged whatever the working directory is, and otherwise the file name
\* joined to the working directory; the step that computes it changes
\* neither the store nor a file.
PathResolution ==
    /\ [](PathResolved => PathCases(config.ourConfigFilename, config.ourWorkingDir))
    /\ [][configFile' # configFile
             => (config' = config /\ file' = file /\ rulesFile' = rulesFile
                 /\ lock' = lock)]_vars

\* C12 witness: sub/conf.yaml under /etc/app was resolved
PathResolutionWitness ==
    /\ PathResolved
    /\ config.ourConfigFilename = <<"sub", "/", "conf.yaml">>
    /\ config.ourWorkingDir = <<"/", "etc", "/", "app">>
    /\ configFile = <<"/", "etc", "/", "app", "/", "sub", "/", "conf.yaml">>

\* the positions of a writeAllConfigs call before its file write is over
BeforeFileWritten == {"w_lock", "w_check", "w_safeWrite"}

\* C13: a mutation that persists completes while holding exclusive access.
\* From its mutation until the file write has finished the operation is the
\* holder of the store's lock, and it never waits for the lock that it holds
\* itself (from which wait it would not return).
MutationPersistsExclusively ==
    \A p \in Callers :
        /\ (call[p].admin # "none" /\ pc[p] \in BeforeFileWritten) => lock.writer = p
        /\ ~(pc[p] = "w_lock" /\ lock.writer = p)

\* the positions of the start-up sequence, before parseConfig has returned
StartingUp ==
    {"log_stat", "log_read", "log_ret", "parse_stat", "parse_read", "parse_ret",
     "parse_dedup", "parse_updateid"}

\* C14: normaliser ordering.  When parseConfig has returned nil after
\* deserializing a file, deduplicateFilters and then updateUniqueFilterID
\* have run, once each; when it returned an error neither has run; and the
\* update never runs before the deduplication.
NormalizerOrdering ==
    /\ hist.parse.state = "loaded"
           => hist.parse.steps = <<"deduplicateFilters", "updateUniqueFilterID">>
    /\ hist.parse.state = "failed" => hist.parse.steps = <<>>
    /\ hist.parse.steps \in { <<>>, <<"deduplicateFilters">>,
                               <<"deduplicateFilters", "updateUniqueFilterID">> }
    /\ (pc[Main] \notin StartingUp /\ pc[Main] # "aborted")
           => hist.parse.state \in {"loaded", "absent"}
    /\ pc[Main] = "aborted" => hist.parse.state = "failed"

\* C14 witness: a file with duplicate filters was loaded and normalised
NormalizerOrderingWitness ==
    /\ hist.parse.state = "loaded"
    /\ pc[Main] = "running"
    /\ Specifies(hist.parse.bytes.doc, "filters")
    /\ Len(config.Filters) = 3

\* every identifier is positive and no two filters share one
UniqueIDs(fs) ==
    /\ \A i \in 1..Len(fs) : fs[i].ID > 0
    /\ \A i, j \in 1..Len(fs) : i # j => fs[i].ID # fs[j].ID

StatusKeys ==
    { "tlsconfigstatus", "validchain", "subject", "issuer", "notbefore", "notafter",
      "dnsnames", "statuscertificate", "validkey", "keytype", "warning",
      "warningvalidation", "valid_chain", "not_before", "not_after", "dns_names",
      "status_cert", "valid_key", "key_type", "warning_validation" }

KeySet(n) == { Keys(n)[i] : i \in 1..Len(Keys(n)) }

\* C16: TLS status is never persisted.  No file that write() wrote has a key
\* of a status field, in its tls section or at the top, and after a load the
\* status fields of the store are what they were before it, also when the
\* file names them.
TLSStatusNeverPersisted ==
    /\ hist.fileOwn
           => /\ KeySet(file.bytes.doc) \cap StatusKeys = {}
              /\ KeySet(Get(file.bytes.doc, "tls")) \cap StatusKeys = {}
    /\ (hist.parse.state \in {"loading", "loaded", "failed"} /\ hist.mutations = 0)
           => config.TLS.Status = hist.parse.pre.TLS.Status

\* C16 witness: a store with a validated certificate was written, and the
\* file it wrote was loaded after a restart: the settings came back, the
\* status did not
TLSStatusNeverPersistedWitness ==
    /\ hist.parse.state = "loaded"
    /\ hist.loadedOwn
    /\ hist.restarts > 0
    /\ hist.mutations = 0
    /\ config.TLS.Settings.ServerName = "agh.example"
    /\ config.TLS.Settings.Enabled
    /\ config.TLS.Status = zeroTLSStatus

\* readConfigFile has just returned to parseConfig or getLogSettings
ReadReturned == pc[Main] \in {"log_ret", "parse_ret"}

\* C17: load I/O failures are surfaced, not masked.  A file that exists and
\* cannot be read makes readConfigFile return an error, which parseConfig
\* returns with the store unchanged; a file that does not exist makes
\* readConfigFile return nil bytes and no error, also when it was there at
\* the existence check.
LoadIOFailuresSurfaced ==
    /\ (ReadReturned /\ hist.found = "unreadable") => err[Main] # ""
    /\ (hist.parse.state = "failed" /\ hist.parse.err \notin YamlErrors)
           => /\ pc[Main] = "aborted" => config = hist.parse.pre
              /\ hist.parse.err # ""
    /\ (ReadReturned /\ hist.found = "absent") => (err[Main] = "" /\ yamlFile.nil)

\* the positions inside configuration.write, between Lock() and Unlock()
InsideWrite == {"w_check", "w_safeWrite", "w_unlock"}

\* C18: write releases the lock on every return path.  The mutex is held by
\* a caller only while that caller is inside write(), it is free when no
\* caller is inside, and every call that waits for it returns.
WriteReleasesLock ==
    /\ [](\A p \in Callers : lock.writer = p <=> pc[p] \in InsideWrite)
    /\ []((\A p \in Callers : pc[p] \notin InsideWrite) => lock.writer = "none")
    /\ \A p \in Callers :
          (pc[p] = "w_lock") ~> (pc[p] \in {"wa_ret", "s_userFilter"})

\* C18 witness: one caller's write failed and released the mutex while the
\* other caller waits for it
WriteReleasesLockWitness ==
    /\ pc[Main] = "wa_ret"
    /\ call[Main].cfgErr # ""
    /\ lock.writer = "none"
    /\ pc[Writer2] = "w_lock"

\* the logging fields of the store, as a logSettings value
LogSettingsOf(c) == [LogFile |-> c.LogFile, Verbose |-> c.Verbose]

\* C19: the two bootstrap phases agree.  When the file did not change while
\* start-up read it and parseConfig returned nil, what getLogSettings
\* returned equals the logging fields of the store, also for an absent file
\* and for a file without the logging keys.
BootstrapPhasesAgree ==
    (hist.parse.state \in {"loaded", "absent"} /\ ~hist.edited /\ hist.mutations = 0)
        => logCfg = LogSettingsOf(config)

\* C19 witness: both phases read log_file and verbose from the same file
BootstrapPhasesAgreeWitness ==
    /\ hist.parse.state = "loaded"
    /\ ~hist.edited
    /\ hist.mutations = 0
    /\ hist.log.state = "ok"
    /\ logCfg = [LogFile |-> "syslog", Verbose |-> TRUE]
    /\ config.LogFile = "syslog"

====
